---- MODULE Spec2Model ----
(***************************************************************************)
(* Model of the training / evaluation orchestration of train.py:           *)
(* run, run_train and run_eval executed SPMD by num_processes workers.     *)
(* Every worker runs the same program; an action is the code a worker      *)
(* executes between two blocking collective calls (or one iteration of     *)
(* the batch loop).  Collectives (gather, barriers) block until every      *)
(* worker of the run has arrived.                                          *)
(***************************************************************************)
EXTENDS Integers, Sequences, FiniteSets, TLC

(* ---------------------------- bounds ----------------------------------- *)
MaxWorkers == 2
MaxEpochs == 2
MaxSteps == 2
MaxBatch == 2
MaxMetric == 2
MaxVal == 3
FracDen == 2
MaxSeed == 2
MaxLoaders == 2
MaxAccum == 3
MaxLoss == 2
MaxMicro == 3
MaxExamples == 2
MaxSeqLen == 4
MaxGen == 2
MaxTok == 2
MaxCalls == 2
MaxDays == 2

(* ----------------------- program constants ----------------------------- *)
\* `itr >= 20` in the divergence check
NanWarmup == 20

(* --------------------------- values ------------------------------------ *)
\* np.inf / -np.inf relative to the metric values 0..MaxMetric
Inf == MaxMetric + 1
NegInf == 0 - Inf
MetricValues == 0..MaxMetric
\* (val_loss, val_metric) pairs the coordinator can compute: the loss falls as
\* the metric rises, so that both components vary
ValPairs == { <<MaxMetric - m + 1, m>> : m \in MetricValues }
\* losses a training step can produce; only finiteness is observed
LossValues == {"finite", "nan"}
NoPair == <<>>

\* evaluation_epochs is a float; it is kept as the numerator of a fraction
\* with denominator FracDen, so that 1.0 is FracDen.
One == FracDen
Fractions == (1..FracDen) \cup {2 * FracDen}

\* steps per epoch of the long single-worker runs that reach the warm-up bound
LongSteps == {NanWarmup - 5, NanWarmup + 1}

Min(a, b) == IF a < b THEN a ELSE b
CeilDiv(a, b) == (a + b - 1) \div b

(* ------------------------ configurations ------------------------------- *)
SmallConfigs ==
    { c \in [ epochs : 0..MaxEpochs,
              epoch_steps : 1..MaxSteps,
              evaluation_epochs : Fractions,
              evaluate_before_training : BOOLEAN,
              save_best_checkpoint : BOOLEAN,
              metric_mode : {"max", "min"},
              use_rlhf : BOOLEAN,
              batch_size : 1..MaxBatch,
              num_processes : 1..MaxWorkers,
              distributed : BOOLEAN,
              val_size : 0..MaxVal ] :
        \* the size of the validation set is varied in the evaluation-only runs
        /\ (c.epochs > 0 => c.val_size = MaxVal)
        \* more than one process is always a distributed run; the runs of
        \* several workers are explored for one batch size, mode and executor,
        \* those of more than two workers with one batch per epoch
        /\ (c.num_processes = 1 => ~c.distributed)
        /\ (c.num_processes > 2 => c.epoch_steps = 1)
        /\ (c.num_processes > 1 =>
               /\ c.distributed
               /\ c.epochs < MaxEpochs
               /\ c.batch_size = 1
               /\ c.metric_mode = "max"
               /\ ~c.use_rlhf) }

LongConfigs ==
    { c \in [ epochs : {MaxEpochs},
              epoch_steps : LongSteps,
              evaluation_epochs : {1, One},
              evaluate_before_training : {FALSE},
              save_best_checkpoint : {FALSE},
              metric_mode : {"max"},
              use_rlhf : {FALSE},
              batch_size : {1},
              num_processes : {1},
              distributed : {FALSE},
              val_size : {MaxVal} ] : TRUE }

\* distributed runs of one epoch that reach the warm-up bound and evaluate
\* after the last batch
DivergingConfigs ==
    { c \in [ epochs : {1},
              epoch_steps : {NanWarmup + 1},
              evaluation_epochs : {One},
              evaluate_before_training : {FALSE},
              save_best_checkpoint : {FALSE},
              metric_mode : {"max"},
              use_rlhf : {FALSE},
              batch_size : {1},
              num_processes : 2..MaxWorkers,
              distributed : {TRUE},
              val_size : {MaxVal} ] : TRUE }

\* distributed runs of several epochs of one batch, evaluated after every epoch
SeveralEpochConfigs ==
    { c \in [ epochs : {MaxEpochs},
              epoch_steps : {1},
              evaluation_epochs : {One},
              evaluate_before_training : {FALSE},
              save_best_checkpoint : BOOLEAN,
              metric_mode : {"max"},
              use_rlhf : {FALSE},
              batch_size : {1},
              num_processes : {2},
              distributed : {TRUE},
              val_size : {MaxVal} ] : TRUE }

Configs == SmallConfigs \cup LongConfigs \cup DivergingConfigs
               \cup SeveralEpochConfigs

\* losses explored for worker w of a configuration: non-finite losses in the
\* one-process runs and, in the long distributed runs, on the workers other
\* than the coordinator
LossOutcomes(c, w) ==
    IF c.num_processes = 1 \/ (c.epoch_steps > MaxSteps /\ w # 0)
    THEN LossValues ELSE {"finite"}

VARIABLES
    cfg,              \* per worker: the configuration object of its process
    pc,               \* per worker: position in run / run_train / run_eval
    err,              \* per worker: the exception that ended it, or "none"
    curr_step,        \* cfg.environment._curr_step
    best_val_metric,  \* run_train local
    objective_op,     \* run_train local: "greater" or "less"
    epoch,            \* run_train loop variable
    itr,              \* run_train inner loop variable
    evaluation_step,  \* run_train local
    rt_val,           \* run_train locals (val_loss, val_metric); NoPair = unbound
    ret,              \* value returned by run_train; NoPair before the return
    caller,           \* call site of the running run_eval: "pre" or "train"
    val_len,          \* run_eval: leading length of every entry of val_data
    ev,               \* run_eval locals (val_loss, val_metric)
    loss,             \* losses[-1] of the last training batch
    obs,              \* per worker: observations of what was executed
    seeding,          \* the seeds set at the head of the epoch loop, per rank
    tob,              \* frame of train_one_batch and the accelerator's state
    rlhf              \* frame of train_rlhf_one_batch and the reward model

\* the state of run / run_train / run_eval
runvars == << cfg, pc, err, curr_step, best_val_metric, objective_op, epoch, itr,
              evaluation_step, rt_val, ret, caller, val_len, ev, loss, obs >>
\* the state of the parts explored on their own
stepvars == << seeding, tob, rlhf >>
vars == << runvars, stepvars >>

\* a part that is not explored by the specification at hand
Idle == [pc |-> "idle"]

Procs == DOMAIN pc
\* variant: every worker takes the coordinator's branches
AnyWorker(w) == TRUE
\* accelerator.local_process_index == 0
Coordinator(w) == w = 0
\* flags.json before run writes to it
NoFlags == [ status |-> "none", info |-> << >>, time_took |-> 0 ]

InitObs ==
    [ nbatch |-> 0,          \* batches dispatched to a step executor in this run
      exec_step |-> 0,       \* _curr_step seen by the last step executor
      batch_log |-> {},      \* steps carried by the log entries of the last batch
      prev_step |-> 0,       \* _curr_step before the last batch
      evals |-> 0,           \* run_eval calls started
      evals_done |-> 0,      \* run_eval calls returned
      train_evals |-> 0,     \* in-training run_eval calls started
      epoch_evals |-> 0,     \* in-training run_eval calls started in this epoch
      eval_at |-> 0,         \* itr + 1 at the last in-training evaluation
      last_eval |-> NoPair,  \* pair returned by the last run_eval
      base_eval |-> NoPair,  \* pair returned by the pre-training run_eval
      io_done |-> 0,         \* evaluations whose coordinator-side I/O is complete
      trig |-> [i |-> 0, fired |-> FALSE],  \* last evaluation trigger computed
      cmp |-> [n |-> 0, v |-> 0, prev |-> 0, saved |-> FALSE, overtaken |-> FALSE],
      coll |-> << >>,        \* collective calls issued, in order
      lossless |-> FALSE,    \* the last post-processed output had no "loss"
      loss_logged |-> 0,     \* validation losses logged
      began_before_cmp |-> FALSE,  \* a batch began before the coordinator had
                                   \* compared this worker's last evaluation
      ckpts |-> 0,           \* save_checkpoint calls in run_train
      final_barrier |-> 0,   \* torch.distributed.barrier() calls after the epochs
      flags |-> NoFlags,     \* flags.json: status, runtime string
      end_ckpts |-> 0,       \* save_checkpoint calls at the end of run
      logged |-> FALSE,      \* the exception of this worker was logged
      peer_waiting |-> FALSE ]  \* a peer was blocked in a collective at teardown

\* the start of run on every worker of a run with configuration c
InitOf(c) ==
        LET P == 0..(c.num_processes - 1) IN
        /\ cfg = [w \in P |-> c]
        /\ pc = [w \in P |-> "run"]
        /\ err = [w \in P |-> "none"]
        /\ curr_step = [w \in P |-> 0]
        /\ best_val_metric = [w \in P |-> 0]
        /\ objective_op = [w \in P |-> "none"]
        /\ epoch = [w \in P |-> 0]
        /\ itr = [w \in P |-> 0]
        /\ evaluation_step = [w \in P |-> 0]
        /\ rt_val = [w \in P |-> NoPair]
        /\ ret = [w \in P |-> NoPair]
        /\ caller = [w \in P |-> "none"]
        /\ val_len = [w \in P |-> 0]
        /\ ev = [w \in P |-> <<0, 0>>]
        /\ loss = [w \in P |-> "finite"]
        /\ obs = [w \in P |-> InitObs]
        /\ seeding = Idle
        /\ tob = Idle
        /\ rlhf = Idle

Init == \E c \in Configs : InitOf(c)

\* no worker process: the state of run in the specifications of the parts
NoRun ==
    /\ cfg = << >> /\ pc = << >> /\ err = << >> /\ curr_step = << >>
    /\ best_val_metric = << >> /\ objective_op = << >> /\ epoch = << >>
    /\ itr = << >> /\ evaluation_step = << >> /\ rt_val = << >> /\ ret = << >>
    /\ caller = << >> /\ val_len = << >> /\ ev = << >> /\ loss = << >>
    /\ obs = << >>

(* ------------------- pure parts of the program ------------------------- *)
\* Python's round(p / q) for p >= 0: half-way cases go to the even neighbour
PyRound(p, q) ==
    LET fl == p \div q
        r == p % q
    IN IF 2 * r < q THEN fl
       ELSE IF 2 * r > q THEN fl + 1
       ELSE IF fl % 2 = 0 THEN fl ELSE fl + 1

\* variant: the evaluation is not forced for 0 epochs
ForceEvaluateNever(ebt, epochs) == ebt
\* run: "Force evaluation if user trains 0 epochs"
ForceEvaluate(ebt, epochs) == ebt \/ epochs = 0

\* run: "Force settings when saving best checkpoint"
ForcedEvaluationEpochs(save_best, f) == IF save_best THEN One ELSE f

\* variant: the initial best values of the two modes exchanged
InitialBestSwapped(mode) == IF mode = "max" THEN Inf ELSE NegInf
\* run_train: initial best_val_metric and objective_op from the metric mode
InitialBest(mode) == IF mode = "max" THEN NegInf ELSE Inf
ObjectiveOpOf(mode) == IF mode = "max" THEN "greater" ELSE "less"

\* np.greater / np.less
ObjectiveOp(op, a, b) == IF op = "greater" THEN a > b ELSE a < b

\* variant: the update of best does not depend on save_best_checkpoint
ShouldSaveAnySetting(op, v, best, save_best) == ObjectiveOp(op, v, best)
\* run_train: the condition guarding save_checkpoint and the update of best
ShouldSave(op, v, best, save_best) == ObjectiveOp(op, v, best) /\ save_best

\* variant: the step counter advances by the local batch size only
NextStepLocal(cur, bs, np) == cur + bs
\* run_train: cfg.environment._curr_step += batch_size * num_processes
NextStep(cur, bs, np) == cur + bs * np

\* np.isfinite
IsFinite(l) == l = "finite"

\* run_train: ~np.isfinite(output_dict["loss"]) and (itr >= 20)
Diverged(l, i) == ~IsFinite(l) /\ i >= NanWarmup

\* variant: the evaluation interval is rounded instead of truncated
EvaluationStepRounded(steps, f) == PyRound(steps * f, FracDen)
\* run_train: evaluation_step = int(epoch_steps * evaluation_epochs);
\* int() truncates, which is the floor of a non-negative product
EvaluationStep(steps, f) == (steps * f) \div FracDen

\* variant: the trigger tests itr instead of itr + 1
EvalTriggeredAtItr(i, es) == i % es = 0
\* run_train: (itr + 1) % evaluation_step == 0, for evaluation_step # 0
EvalTriggered(i, es) == (i + 1) % es = 0

\* run_train: the inner loop goes on to the next batch or leaves the epoch
AfterBatch(i, steps) == IF i + 1 < steps THEN "batch" ELSE "epoch_end"

\* accelerator.distributed_type, a str-valued enumeration
DistributedType(c) == IF c.distributed THEN "MULTI_GPU" ELSE "NO"
\* truth value of a str-valued enumeration member: that of its string
Truthy(s) == s # ""

\* run_eval: length of the shard a worker's run_inference produces
ShardLen(n, np) == CeilDiv(n, np)

\* sync_across_processes: concatenation of every worker's shard
RECURSIVE SumLens(_, _)
SumLens(f, S) ==
    IF S = {} THEN 0
    ELSE LET x == CHOOSE y \in S : TRUE IN f[x] + SumLens(f, S \ {x})
SyncAcrossProcesses(lens) == SumLens(lens, DOMAIN lens)

\* variant: the extra observations are kept
TruncateNothing(len, n) == len
\* run_eval: v[: len(val_dataloader.dataset)]
Truncate(len, n) == Min(len, n)

\* positions of a worker blocked in a collective call
CollectiveWaits == {"w_gather", "w_evalbar", "w_epochbar", "w_finalbar"}
\* the collective calls issued so far, with the one that leads to position l
Issued(log, l) == IF l \in CollectiveWaits THEN Append(log, l) ELSE log

\* variant: no rendezvous, the worker goes on at once
WaitForNobody(c, waiting, after) == after
\* accelerator.wait_for_everyone(): blocks in a distributed run only
WaitForEveryone(c, waiting, after) == IF c.distributed THEN waiting ELSE after

(* ------------------------------ run ------------------------------------ *)
\* run, up to the call of run_train
Run(w) ==
    /\ pc[w] = "run"
    /\ cfg' = [cfg EXCEPT
           ![w].evaluate_before_training =
               ForceEvaluate(cfg[w].evaluate_before_training, cfg[w].epochs),
           ![w].evaluation_epochs =
               ForcedEvaluationEpochs(cfg[w].save_best_checkpoint,
                                      cfg[w].evaluation_epochs)]
    /\ curr_step' = [curr_step EXCEPT ![w] = 0]
    /\ pc' = [pc EXCEPT ![w] = "run_train"]
    /\ UNCHANGED << err, best_val_metric, objective_op, epoch, itr,
                    evaluation_step, rt_val, ret, caller, val_len, ev, loss, obs >>
    /\ UNCHANGED stepvars

(* --------------------------- run_train --------------------------------- *)
\* run_train, up to the optional pre-training evaluation
RunTrainInit(w) ==
    /\ pc[w] = "run_train"
    /\ best_val_metric' = [best_val_metric EXCEPT ![w] = InitialBest(cfg[w].metric_mode)]
    /\ objective_op' = [objective_op EXCEPT ![w] = ObjectiveOpOf(cfg[w].metric_mode)]
    /\ epoch' = [epoch EXCEPT ![w] = 0]
    /\ IF cfg[w].evaluate_before_training
       THEN /\ caller' = [caller EXCEPT ![w] = "pre"]
            /\ pc' = [pc EXCEPT ![w] = "run_eval"]
       ELSE /\ pc' = [pc EXCEPT ![w] = "epoch"]
            /\ UNCHANGED caller
    /\ UNCHANGED << cfg, err, curr_step, itr, evaluation_step, rt_val, ret,
                    val_len, ev, loss, obs >>
    /\ UNCHANGED stepvars

\* the head of the epoch loop and the set-up of one epoch
EpochHead(w) ==
    /\ pc[w] = "epoch"
    /\ IF epoch[w] < cfg[w].epochs
       THEN /\ itr' = [itr EXCEPT ![w] = 0]
            /\ evaluation_step' = [evaluation_step EXCEPT ![w] =
                   EvaluationStep(cfg[w].epoch_steps, cfg[w].evaluation_epochs)]
            /\ obs' = [obs EXCEPT ![w].epoch_evals = 0]
            /\ pc' = [pc EXCEPT ![w] =
                   IF cfg[w].epoch_steps > 0 THEN "batch" ELSE "epoch_end"]
       ELSE /\ pc' = [pc EXCEPT ![w] = "final"]
            /\ UNCHANGED << itr, evaluation_step, obs >>
    /\ UNCHANGED << cfg, err, curr_step, best_val_metric, objective_op, epoch,
                    rt_val, ret, caller, val_len, ev, loss >>
    /\ UNCHANGED stepvars

\* one iteration of the batch loop, up to the decision to evaluate
TrainBatch(w) ==
    /\ pc[w] = "batch"
    /\ \E l \in LossOutcomes(cfg[w], w) :
        LET c == cfg[w]
            step == NextStep(curr_step[w], c.batch_size, c.num_processes)
            raise == ~c.use_rlhf /\ Diverged(l, itr[w])
            es == evaluation_step[w]
            o1 == [obs[w] EXCEPT !.nbatch = @ + 1,
                                 !.began_before_cmp =
                                     @ \/ obs[0].cmp.n < obs[w].train_evals,
                                 !.prev_step = curr_step[w],
                                 !.exec_step = step,
                                 !.batch_log = {}]
            o2 == [o1 EXCEPT !.batch_log = IF Coordinator(w) THEN {step} ELSE {}]
        IN
        /\ curr_step' = [curr_step EXCEPT ![w] = step]
        /\ loss' = [loss EXCEPT ![w] = l]
        /\ IF raise
           THEN /\ err' = [err EXCEPT ![w] = "LLMTrainingException"]
                /\ pc' = [pc EXCEPT ![w] = "raised"]
                /\ obs' = [obs EXCEPT ![w] = o1]
                /\ UNCHANGED << itr, caller >>
           ELSE IF es = 0
           THEN /\ err' = [err EXCEPT ![w] = "ZeroDivisionError"]
                /\ pc' = [pc EXCEPT ![w] = "raised"]
                /\ obs' = [obs EXCEPT ![w] = o2]
                /\ UNCHANGED << itr, caller >>
           ELSE IF EvalTriggered(itr[w], es)
           THEN /\ caller' = [caller EXCEPT ![w] = "train"]
                /\ pc' = [pc EXCEPT ![w] = "run_eval"]
                /\ obs' = [obs EXCEPT ![w] =
                       [o2 EXCEPT !.trig = [i |-> itr[w] + 1, fired |-> TRUE]]]
                /\ UNCHANGED << itr, err >>
           ELSE /\ pc' = [pc EXCEPT ![w] = AfterBatch(itr[w], c.epoch_steps)]
                /\ itr' = [itr EXCEPT ![w] = @ + 1]
                /\ obs' = [obs EXCEPT ![w] =
                       [o2 EXCEPT !.trig = [i |-> itr[w] + 1, fired |-> FALSE]]]
                /\ UNCHANGED << caller, err >>
    /\ UNCHANGED << cfg, best_val_metric, objective_op, epoch, evaluation_step,
                    rt_val, ret, val_len, ev >>
    /\ UNCHANGED stepvars

\* after run_eval in the batch loop: checkpoint comparison, back to training
Compare(w) ==
    /\ pc[w] = "compare"
    /\ LET v == rt_val[w][2]
           save == ShouldSave(objective_op[w], v, best_val_metric[w],
                              cfg[w].save_best_checkpoint)
       IN IF Coordinator(w)
          THEN /\ best_val_metric' = [best_val_metric EXCEPT ![w] =
                      IF save THEN v ELSE @]
               /\ obs' = [obs EXCEPT
                      ![w].cmp = [n |-> @.n + 1, v |-> v,
                                  prev |-> best_val_metric[w], saved |-> save,
                                  overtaken |-> \E u \in Procs :
                                      obs[u].nbatch > obs[w].nbatch],
                      ![w].ckpts = IF save THEN @ + 1 ELSE @]
          ELSE UNCHANGED << best_val_metric, obs >>
    /\ pc' = [pc EXCEPT ![w] = AfterBatch(itr[w], cfg[w].epoch_steps)]
    /\ itr' = [itr EXCEPT ![w] = @ + 1]
    /\ UNCHANGED << cfg, err, curr_step, objective_op, epoch, evaluation_step,
                    rt_val, ret, caller, val_len, ev, loss >>
    /\ UNCHANGED stepvars

\* end of an epoch: close the progress bar and wait for everyone
EpochEnd(w) ==
    /\ pc[w] = "epoch_end"
    /\ pc' = [pc EXCEPT ![w] = WaitForEveryone(cfg[w], "w_epochbar", "epoch_log")]
    /\ obs' = [obs EXCEPT ![w].coll = Issued(@, pc'[w])]
    /\ UNCHANGED << cfg, err, curr_step, best_val_metric, objective_op, epoch, itr,
                    evaluation_step, rt_val, ret, caller, val_len, ev, loss >>
    /\ UNCHANGED stepvars

\* after the end-of-epoch barrier: the coordinator logs the epoch; next epoch
EpochLog(w) ==
    /\ pc[w] = "epoch_log"
    /\ epoch' = [epoch EXCEPT ![w] = @ + 1]
    /\ pc' = [pc EXCEPT ![w] = "epoch"]
    /\ UNCHANGED << cfg, err, curr_step, best_val_metric, objective_op, itr,
                    evaluation_step, rt_val, ret, caller, val_len, ev, loss, obs >>
    /\ UNCHANGED stepvars

\* after the last epoch: `if accelerator.distributed_type: barrier()`.
\* Without a process group the barrier call either raises or returns at once.
FinalBarrier(w) ==
    /\ pc[w] = "final"
    /\ IF Truthy(DistributedType(cfg[w]))
       THEN /\ obs' = [obs EXCEPT
                   ![w].final_barrier = @ + 1,
                   ![w].coll = Issued(@, IF cfg[w].distributed
                                         THEN "w_finalbar" ELSE "return")]
            /\ IF cfg[w].distributed
               THEN /\ pc' = [pc EXCEPT ![w] = "w_finalbar"]
                    /\ UNCHANGED err
               ELSE \/ /\ pc' = [pc EXCEPT ![w] = "return"]
                       /\ UNCHANGED err
                    \/ /\ pc' = [pc EXCEPT ![w] = "raised"]
                       /\ err' = [err EXCEPT ![w] = "RuntimeError"]
       ELSE /\ pc' = [pc EXCEPT ![w] = "return"]
            /\ UNCHANGED << err, obs >>
    /\ UNCHANGED << cfg, curr_step, best_val_metric, objective_op, epoch, itr,
                    evaluation_step, rt_val, ret, caller, val_len, ev, loss >>
    /\ UNCHANGED stepvars

\* return val_loss, val_metric: the names are unbound when no run_eval ran
Return(w) ==
    /\ pc[w] = "return"
    /\ IF rt_val[w] = NoPair
       THEN /\ err' = [err EXCEPT ![w] = "UnboundLocalError"]
            /\ pc' = [pc EXCEPT ![w] = "raised"]
            /\ UNCHANGED ret
       ELSE /\ ret' = [ret EXCEPT ![w] = rt_val[w]]
            /\ pc' = [pc EXCEPT ![w] = "returned"]
            /\ UNCHANGED err
    /\ UNCHANGED << cfg, curr_step, best_val_metric, objective_op, epoch, itr,
                    evaluation_step, rt_val, caller, val_len, ev, loss, obs >>
    /\ UNCHANGED stepvars

\* seconds of a day: the threshold `time_took > 86400`
DaySeconds == 86400
\* elapsed whole seconds of a run: up to MaxDays days and, within the day,
\* its first two seconds and a time with hours, minutes and seconds
Elapsed == { d * DaySeconds + x : d \in 0..MaxDays, x \in {0, 1, 3661} }
\* time.time() - global_start_time: the elapsed time is varied in the
\* evaluation-only runs over the whole validation set (for one batch size:
\* these runs have no training batch); another run is given an hour per epoch
ElapsedOf(c) ==
    IF c.epochs = 0 /\ c.val_size = MaxVal /\ c.batch_size = 1
    THEN Elapsed ELSE {c.epochs * 3600}

\* time.gmtime(t), for t within the first year of the epoch: tm_yday counts
\* the days of the year from 1
GmTime(t) ==
    [ tm_yday |-> t \div DaySeconds + 1,
      tm_hour |-> (t % DaySeconds) \div 3600,
      tm_min |-> (t % 3600) \div 60,
      tm_sec |-> t % 60 ]

\* time.strftime: "%-j" is tm_yday without padding, "%H:%M:%S" the time of
\* day; the string is kept as its fields, and a plain string has no day field
StrfDays(tm) == [ d |-> << tm.tm_yday >>, H |-> tm.tm_hour, M |-> tm.tm_min, S |-> tm.tm_sec ]
StrfPlain(tm) == [ d |-> << >>, H |-> tm.tm_hour, M |-> tm.tm_min, S |-> tm.tm_sec ]

\* run: time_took_formatted
TimeTookFormatted(t) ==
    IF t > DaySeconds THEN StrfDays(GmTime(t)) ELSE StrfPlain(GmTime(t))

\* run, after run_train: the coordinator saves the last checkpoint unless the
\* best one was kept, then the configuration, the predictions and the flags
RunTail(w) ==
    /\ pc[w] = "returned"
    /\ \E t \in ElapsedOf(cfg[w]) :
         obs' = [obs EXCEPT
           ![w].flags = IF Coordinator(w)
                        THEN [ status |-> "finished",
                               info |-> << TimeTookFormatted(t) >>,
                               time_took |-> t ]
                        ELSE @,
           ![w].end_ckpts =
           IF Coordinator(w) /\ ~cfg[w].save_best_checkpoint THEN @ + 1 ELSE @]
    /\ pc' = [pc EXCEPT ![w] = "done"]
    /\ UNCHANGED << cfg, err, curr_step, best_val_metric, objective_op, epoch, itr,
                    evaluation_step, rt_val, ret, caller, val_len, ev, loss >>
    /\ UNCHANGED stepvars

(* ---------------------------- __main__ --------------------------------- *)
\* positions of a worker whose process has ended
Terminated == {"done", "killed"}

\* variant: only the calling process is killed
KillOnlyCaller(p, w) == [p EXCEPT ![w] = "killed"]
\* kill_ddp_processes: kills every process of the run that is still alive,
\* the caller included
KillDdpProcesses(p, w) ==
    [v \in DOMAIN p |-> IF p[v] \in Terminated THEN p[v] ELSE "killed"]

\* except Exception: the exception is logged, then the processes are killed
HandleException(w) ==
    /\ pc[w] = "raised"
    /\ obs' = [obs EXCEPT
           ![w].logged = TRUE,
           ![w].peer_waiting = \E v \in Procs \ {w} : pc[v] \in CollectiveWaits]
    /\ pc' = KillDdpProcesses(pc, w)
    /\ UNCHANGED << cfg, err, curr_step, best_val_metric, objective_op, epoch, itr,
                    evaluation_step, rt_val, ret, caller, val_len, ev, loss >>
    /\ UNCHANGED stepvars

(* ---------------------------- run_eval --------------------------------- *)
\* run_inference on the worker's shard, up to the gather
RunInference(w) ==
    /\ pc[w] = "run_eval"
    /\ val_len' = [val_len EXCEPT ![w] =
           ShardLen(cfg[w].val_size, cfg[w].num_processes)]
    /\ obs' = [obs EXCEPT
           ![w].evals = @ + 1,
           ![w].train_evals = IF caller[w] = "train" THEN @ + 1 ELSE @,
           ![w].epoch_evals = IF caller[w] = "train" THEN @ + 1 ELSE @,
           ![w].eval_at = IF caller[w] = "train" THEN itr[w] + 1 ELSE @,
           ![w].coll = Issued(@, IF DistributedType(cfg[w]) # "NO"
                                 THEN "w_gather" ELSE "truncate")]
    /\ pc' = [pc EXCEPT ![w] =
           IF DistributedType(cfg[w]) # "NO" THEN "w_gather" ELSE "truncate"]
    /\ UNCHANGED << cfg, err, curr_step, best_val_metric, objective_op, epoch, itr,
                    evaluation_step, rt_val, ret, caller, ev, loss >>
    /\ UNCHANGED stepvars

\* every worker has entered the gather: each receives the concatenation
GatherRelease ==
    /\ \A w \in Procs : pc[w] = "w_gather"
    /\ val_len' = [w \in Procs |-> SyncAcrossProcesses(val_len)]
    /\ pc' = [w \in Procs |-> "truncate"]
    /\ UNCHANGED << cfg, err, curr_step, best_val_metric, objective_op, epoch, itr,
                    evaluation_step, rt_val, ret, caller, ev, loss, obs >>
    /\ UNCHANGED stepvars

\* drop the extra observations; a non-coordinating worker goes on to the barrier
TruncateStep(w) ==
    /\ pc[w] = "truncate"
    /\ val_len' = [val_len EXCEPT ![w] = Truncate(val_len[w], cfg[w].val_size)]
    /\ ev' = [ev EXCEPT ![w] = <<0, 0>>]
    /\ pc' = [pc EXCEPT ![w] =
           IF Coordinator(w) THEN "postprocess"
           ELSE WaitForEveryone(cfg[w], "w_evalbar", "eval_ret")]
    /\ obs' = [obs EXCEPT ![w].coll = Issued(@, pc'[w])]
    /\ UNCHANGED << cfg, err, curr_step, best_val_metric, objective_op, epoch, itr,
                    evaluation_step, rt_val, ret, caller, loss >>
    /\ UNCHANGED stepvars

\* whether the post-processed output has a "loss" entry; the output without
\* one is explored in the evaluation-only runs
LossEntries(c) == IF c.epochs = 0 THEN BOOLEAN ELSE {TRUE}

\* variant: the mean is taken whether or not there is a "loss" entry
ValLossAlways(has_loss, mean) == mean

\* `val_loss = 0.0`, replaced by the mean only under `if "loss" in val_data`
ValLoss(has_loss, mean) == IF has_loss THEN mean ELSE 0

\* coordinator only: postprocess, loss and metric, logging, plots, predictions
PostProcess(w) ==
    /\ pc[w] = "postprocess"
    /\ \E p \in ValPairs, has_loss \in LossEntries(cfg[w]) :
           /\ ev' = [ev EXCEPT ![w] = << ValLoss(has_loss, p[1]), p[2] >>]
           /\ obs' = [obs EXCEPT
                  ![w].io_done = @ + 1,
                  ![w].lossless = ~has_loss,
                  ![w].loss_logged = IF has_loss THEN @ + 1 ELSE @,
                  ![w].coll = Issued(@, WaitForEveryone(cfg[w], "w_evalbar", "eval_ret"))]
    /\ pc' = [pc EXCEPT ![w] = WaitForEveryone(cfg[w], "w_evalbar", "eval_ret")]
    /\ UNCHANGED << cfg, err, curr_step, best_val_metric, objective_op, epoch, itr,
                    evaluation_step, rt_val, ret, caller, val_len, loss >>
    /\ UNCHANGED stepvars

\* return val_loss, val_metric to the call site in run_train
EvalReturn(w) ==
    /\ pc[w] = "eval_ret"
    /\ rt_val' = [rt_val EXCEPT ![w] = ev[w]]
    /\ obs' = [obs EXCEPT
           ![w].evals_done = @ + 1,
           ![w].last_eval = ev[w],
           ![w].base_eval = IF caller[w] = "pre" THEN ev[w] ELSE @]
    /\ pc' = [pc EXCEPT ![w] = IF caller[w] = "pre" THEN "epoch" ELSE "compare"]
    /\ UNCHANGED << cfg, err, curr_step, best_val_metric, objective_op, epoch, itr,
                    evaluation_step, ret, caller, val_len, ev, loss >>
    /\ UNCHANGED stepvars

(* --------------------------- barriers ---------------------------------- *)
BarrierWaits == {"w_evalbar", "w_epochbar", "w_finalbar"}
AfterBarrier(l) ==
    CASE l = "w_evalbar" -> "eval_ret"
      [] l = "w_epochbar" -> "epoch_log"
      [] l = "w_finalbar" -> "return"

\* every worker of the run waits in a barrier: all of them are released
BarrierRelease ==
    /\ \A w \in Procs : pc[w] \in BarrierWaits
    /\ pc' = [w \in Procs |-> AfterBarrier(pc[w])]
    /\ UNCHANGED << cfg, err, curr_step, best_val_metric, objective_op, epoch, itr,
                    evaluation_step, rt_val, ret, caller, val_len, ev, loss, obs >>
    /\ UNCHANGED stepvars

(* ------------------------- specification ------------------------------- *)
Next ==
    \/ \E w \in Procs : Run(w)
    \/ \E w \in Procs : RunTrainInit(w)
    \/ \E w \in Procs : EpochHead(w)
    \/ \E w \in Procs : TrainBatch(w)
    \/ \E w \in Procs : Compare(w)
    \/ \E w \in Procs : EpochEnd(w)
    \/ \E w \in Procs : EpochLog(w)
    \/ \E w \in Procs : FinalBarrier(w)
    \/ \E w \in Procs : Return(w)
    \/ \E w \in Procs : RunTail(w)
    \/ \E w \in Procs : HandleException(w)
    \/ \E w \in Procs : RunInference(w)
    \/ GatherRelease
    \/ \E w \in Procs : TruncateStep(w)
    \/ \E w \in Procs : PostProcess(w)
    \/ \E w \in Procs : EvalReturn(w)
    \/ BarrierRelease

Spec == Init /\ [][Next]_vars

\* configurations in which a worker can raise an exception: a run without
\* process group (final barrier, unbound return values), a run long enough to
\* pass the warm-up of the divergence check, an evaluation interval of 0, or a
\* run that never evaluates
CanRaise(c) ==
    LET es == EvaluationStep(c.epoch_steps,
                  ForcedEvaluationEpochs(c.save_best_checkpoint, c.evaluation_epochs))
    IN \/ ~c.distributed
       \/ c.epoch_steps > NanWarmup
       \/ (c.epochs > 0 /\ es = 0)
       \/ (~ForceEvaluate(c.evaluate_before_training, c.epochs) /\ es > c.epoch_steps)

\* the runs in which a worker can raise, of one or several workers, explored
\* for one batch size, metric mode and step executor
FailInit ==
    \E c \in Configs :
        /\ CanRaise(c)
        /\ c.batch_size = 1 /\ c.metric_mode = "max" /\ ~c.use_rlhf
        /\ InitOf(c)

\* the distributed runs of a few batches per epoch, explored for one batch
\* size, metric mode and step executor; the runs of more than two workers
\* have one batch per epoch
DistInit ==
    \E c \in Configs :
        /\ c.distributed /\ c.epoch_steps <= MaxSteps
        /\ (c.num_processes > 2 => c.epoch_steps = 1)
        /\ c.batch_size = 1 /\ c.metric_mode = "max" /\ ~c.use_rlhf
        /\ InitOf(c)

\* Every worker process keeps running, and a
\* collective call returns once every worker has issued it: a step that is
\* possible is eventually taken.
FairRunSpec == DistInit /\ [][Next]_vars /\ WF_vars(Next)

\* A process that has raised goes on
\* to its except clause: the handler of a worker that stays in "raised" is
\* eventually run.
FairSpec ==
    /\ FailInit
    /\ [][Next]_vars
    /\ \A w \in 0..(MaxWorkers - 1) : WF_vars(w \in Procs /\ HandleException(w))

(* ----------------------- seeds of the epochs --------------------------- *)
\* variant: the rank is not scaled by the number of loader workers
SeedOfEpochRankUnscaled(base, e, np, nw, rank) == base + e * np * nw + rank
\* run_train: the argument of set_seed at the head of an epoch
SeedOfEpoch(base, e, np, nw, rank) == base + e * np * nw + rank * nw

\* the epoch loops of the workers of one run, reduced to their set_seed calls
SeedInit ==
    /\ NoRun
    /\ \E b \in 0..MaxSeed, np \in 1..MaxWorkers, nw \in 0..MaxLoaders,
          n \in 1..MaxEpochs :
            seeding = [ pc |-> "epochs",
                        base |-> b,
                        num_processes |-> np,
                        number_of_workers |-> nw,
                        epochs |-> n,
                        epoch |-> [r \in 0..(np - 1) |-> 0],
                        set |-> {} ]
    /\ tob = Idle
    /\ rlhf = Idle

\* worker r enters its next epoch and sets the seed
SetSeed(r) ==
    /\ seeding.pc = "epochs"
    /\ r \in DOMAIN seeding.epoch
    /\ seeding.epoch[r] < seeding.epochs
    /\ seeding' = [seeding EXCEPT
           !.epoch[r] = @ + 1,
           !.set = @ \cup { [ epoch |-> seeding.epoch[r], rank |-> r,
                              seed |-> SeedOfEpoch(seeding.base, seeding.epoch[r],
                                                   seeding.num_processes,
                                                   seeding.number_of_workers, r) ] }]
    /\ UNCHANGED << runvars, tob, rlhf >>

SeedNext == \E r \in 0..(MaxWorkers - 1) : SetSeed(r)

SeedSpec == SeedInit /\ [][SeedNext]_vars

(* -------------------------- train_one_batch ---------------------------- *)
\* a loss is a fraction << numerator, denominator >>
\* variant: the loss is never scaled
ScaleLossNever(l, A) == l
\* train_one_batch: if grad_accumulation != 1: loss = loss / grad_accumulation
ScaleLoss(l, A) == IF A # 1 THEN << l[1], l[2] * A >> ELSE l

\* accelerator._do_sync: gradients are synchronised when the window is full
SyncGradients(step, A) == step % A = 0

\* micro-steps of one worker: calls of train_one_batch on successive batches.
\* sync_at is the point where the wrapped model reads the no_sync setting of
\* the accumulation scope: in its forward pass or in its backward pass.
TobInit ==
    /\ NoRun
    /\ seeding = Idle
    /\ rlhf = Idle
    /\ \E A \in 1..MaxAccum, clip \in BOOLEAN, at \in {"forward", "backward"} :
           tob = [ pc |-> "call",
                   grad_accumulation |-> A,
                   gradient_clip |-> clip,
                   sync_at |-> at,
                   step |-> 0,               \* accelerator.step
                   sync_gradients |-> TRUE,  \* accelerator.sync_gradients
                   in_scope |-> FALSE,       \* inside accelerator.accumulate
                   no_sync |-> FALSE,        \* the scope suppresses the sync
                   fwd_no_sync |-> FALSE,    \* no_sync as the forward pass saw it
                   raw |-> NoPair,           \* loss of the forward pass
                   loss |-> NoPair,          \* local variable loss
                   out_loss |-> NoPair,      \* output_dict["loss"]
                   bw |-> [done |-> FALSE, loss |-> NoPair,
                           in_scope |-> FALSE, synced |-> FALSE],
                   opt |-> [done |-> FALSE, in_scope |-> FALSE,
                            clipped |-> FALSE, stepped |-> FALSE],
                   calls |-> 0 ]

\* with accelerator.accumulate(model): the scope is entered
EnterAccumulate ==
    /\ tob.pc = "call"
    /\ tob.calls < MaxMicro
    /\ LET sync == SyncGradients(tob.step + 1, tob.grad_accumulation)
       IN tob' = [tob EXCEPT
              !.pc = "forward",
              !.step = @ + 1,
              !.sync_gradients = sync,
              !.in_scope = TRUE,
              !.no_sync = ~sync,
              !.raw = NoPair, !.loss = NoPair, !.out_loss = NoPair,
              !.bw = [done |-> FALSE, loss |-> NoPair,
                      in_scope |-> FALSE, synced |-> FALSE],
              !.opt = [done |-> FALSE, in_scope |-> FALSE,
                       clipped |-> FALSE, stepped |-> FALSE]]
    /\ UNCHANGED << runvars, seeding, rlhf >>

\* output_dict = model.forward(batch), under autocast
Forward ==
    /\ tob.pc = "forward"
    /\ \E l \in 1..MaxLoss :
           tob' = [tob EXCEPT
               !.pc = "exit",
               !.raw = << l, 1 >>,
               !.fwd_no_sync = tob.no_sync]
    /\ UNCHANGED << runvars, seeding, rlhf >>

\* the end of the with blocks: the accumulation scope is left
ExitAccumulate ==
    /\ tob.pc = "exit"
    /\ tob' = [tob EXCEPT !.pc = "scale", !.in_scope = FALSE, !.no_sync = FALSE]
    /\ UNCHANGED << runvars, seeding, rlhf >>

\* loss = output_dict["loss"], scaled by the accumulation window
Scale ==
    /\ tob.pc = "scale"
    /\ tob' = [tob EXCEPT
           !.pc = "backward",
           !.loss = ScaleLoss(tob.raw, tob.grad_accumulation)]
    /\ UNCHANGED << runvars, seeding, rlhf >>

\* accelerator.backward(loss); output_dict["loss"] = loss.item()
Backward ==
    /\ tob.pc = "backward"
    /\ tob' = [tob EXCEPT
           !.pc = "step",
           !.bw = [done |-> TRUE, loss |-> tob.loss, in_scope |-> tob.in_scope,
                   synced |-> IF tob.sync_at = "forward"
                              THEN ~tob.fwd_no_sync ELSE ~tob.no_sync],
           !.out_loss = tob.loss]
    /\ UNCHANGED << runvars, seeding, rlhf >>

\* gradient clipping, optimizer.step(), zero_grad, scheduler.step(), return
ClipAndStep ==
    /\ tob.pc = "step"
    /\ tob' = [tob EXCEPT
           !.pc = "call",
           !.opt = [done |-> TRUE, in_scope |-> tob.in_scope,
                    clipped |-> tob.gradient_clip /\ tob.sync_gradients,
                    stepped |-> tob.sync_gradients],
           !.calls = @ + 1]
    /\ UNCHANGED << runvars, seeding, rlhf >>

TobNext ==
    \/ EnterAccumulate
    \/ Forward
    \/ ExitAccumulate
    \/ Scale
    \/ Backward
    \/ ClipAndStep

TobSpec == TobInit /\ [][TobNext]_vars

(* ----------------------- train_rlhf_one_batch -------------------------- *)
\* token ids; the end-of-sequence id is the largest
Tokens == 0..MaxTok
EosId == MaxTok
\* pad_token_id of a model configuration without a pad token
None == 0 - 1
PadIds == {None} \cup (0..(MaxTok - 1))

SetMin(S) == CHOOSE x \in S : \A y \in S : x <= y
\* torch.where(t == v)[0]: the positions of t that hold v
Where(t, v) == { i \in 1..Len(t) : t[i] = v }

\* a or b on an optional integer: None and 0 are false
PyOr(a, b) == IF a = None \/ a = 0 THEN b ELSE a

\* variant: the query is never cut
QueryStripNothing(ids, mask) == ids
\* input_ids[where(att_mask == 1).min():], or input_ids without such a position
QueryStrip(ids, mask) ==
    IF Cardinality(Where(mask, 1)) > 0
    THEN SubSeq(ids, SetMin(Where(mask, 1)), Len(ids))
    ELSE ids

\* predicted_answer_ids[: where(ids == pad_tok_id).min()], or all of it
ResponseStrip(ids, pad_tok_id) ==
    IF Cardinality(Where(ids, pad_tok_id)) > 0
    THEN SubSeq(ids, 1, SetMin(Where(ids, pad_tok_id)) - 1)
    ELSE ids

\* run: the reward model is put on the CPU or on the accelerator
InitialPlacement(offload) == IF offload THEN "cpu" ELSE "device"
\* if offload_reward_model: reward_model.to(accelerator.device)
BeforeScore(offload, place) == IF offload THEN "device" ELSE place
\* variant: the reward model is left where it is
PlacementKept(offload, place) == place
\* if offload_reward_model: reward_model.to("cpu")
AfterScore(offload, place) == IF offload THEN "cpu" ELSE place

\* reward_model.get_score: one score per predicted text
GetScore(texts) == [k \in 1..Len(texts) |-> k]

\* attention masks: every mask for a batch of one example; the masks without
\* padding and with the left half padded for larger batches
LeftPadded(L, k) == [i \in 1..L |-> IF i <= k THEN 0 ELSE 1]
MaskRows(B) ==
    IF B = 1 THEN [1..MaxSeqLen -> {0, 1}]
    ELSE {LeftPadded(MaxSeqLen, 0), LeftPadded(MaxSeqLen, MaxSeqLen \div 2)}
\* input ids: each position holds its own index
InputRow == [i \in 1..MaxSeqLen |-> i]
\* generated rows: every row for a batch of one example, the rows of one
\* repeated token for larger batches
GeneratedRows(B) ==
    IF B = 1 THEN [1..MaxGen -> Tokens]
    ELSE { [i \in 1..MaxGen |-> t] : t \in Tokens }

NoHandOver == [query |-> << >>, response |-> << >>, reward |-> << >>]

\* calls of train_rlhf_one_batch of one worker on one batch
RlhfInit ==
    /\ NoRun
    /\ seeding = Idle
    /\ tob = Idle
    /\ \E B \in 1..MaxExamples, offload \in BOOLEAN, pad \in PadIds :
         \E masks \in [1..B -> MaskRows(B)] :
            rlhf = [ pc |-> "call",
                     offload_reward_model |-> offload,
                     pad_token_id |-> pad,
                     eos_token_id |-> EosId,
                     placement |-> InitialPlacement(offload),
                     input_ids |-> [k \in 1..B |-> InputRow],
                     attention_mask |-> masks,
                     predicted_answer_ids |-> << >>,
                     scores |-> << >>,
                     score_on |-> "none",   \* placement seen by get_score
                     reward |-> << >>,
                     query_tensor |-> << >>,
                     response_tensor |-> << >>,
                     handed |-> NoHandOver, \* arguments of ppo_trainer.step
                     calls |-> 0 ]

\* rollout: generate the answers and post-process them
Rollout ==
    /\ rlhf.pc = "call"
    /\ rlhf.calls < MaxCalls
    /\ LET B == Len(rlhf.input_ids)
       IN \E g \in [1..B -> GeneratedRows(B)] :
            rlhf' = [rlhf EXCEPT
                !.pc = "move_in",
                !.predicted_answer_ids = g,
                !.scores = << >>, !.score_on = "none", !.reward = << >>,
                !.query_tensor = << >>, !.response_tensor = << >>,
                !.handed = NoHandOver]
    /\ UNCHANGED << runvars, seeding, tob >>

\* the offloaded reward model is moved to the accelerator
MoveIn ==
    /\ rlhf.pc = "move_in"
    /\ rlhf' = [rlhf EXCEPT
           !.pc = "score",
           !.placement = BeforeScore(rlhf.offload_reward_model, @)]
    /\ UNCHANGED << runvars, seeding, tob >>

\* scores = reward_model.get_score(prompts, predicted texts)
Score ==
    /\ rlhf.pc = "score"
    /\ rlhf' = [rlhf EXCEPT
           !.pc = "move_back",
           !.scores = GetScore(rlhf.predicted_answer_ids),
           !.score_on = rlhf.placement]
    /\ UNCHANGED << runvars, seeding, tob >>

\* the offloaded reward model is moved back to the CPU
MoveBack ==
    /\ rlhf.pc = "move_back"
    /\ rlhf' = [rlhf EXCEPT
           !.pc = "depad",
           !.placement = AfterScore(rlhf.offload_reward_model, @)]
    /\ UNCHANGED << runvars, seeding, tob >>

\* rewards, queries and responses without their padding
Depad ==
    /\ rlhf.pc = "depad"
    /\ LET B == Len(rlhf.input_ids)
           pad_tok_id == PyOr(rlhf.pad_token_id, rlhf.eos_token_id)
       IN rlhf' = [rlhf EXCEPT
              !.pc = "ppo",
              !.reward = [k \in 1..Len(rlhf.scores) |-> rlhf.scores[k]],
              !.query_tensor =
                  [k \in 1..B |-> QueryStrip(rlhf.input_ids[k],
                                             rlhf.attention_mask[k])],
              !.response_tensor =
                  [k \in 1..Len(rlhf.predicted_answer_ids) |->
                      ResponseStrip(rlhf.predicted_answer_ids[k], pad_tok_id)]]
    /\ UNCHANGED << runvars, seeding, tob >>

\* output_dict = ppo_trainer.step(query_tensor, response_tensor, reward); return
PpoStep ==
    /\ rlhf.pc = "ppo"
    /\ rlhf' = [rlhf EXCEPT
           !.pc = "call",
           !.handed = [query |-> rlhf.query_tensor,
                       response |-> rlhf.response_tensor,
                       reward |-> rlhf.reward],
           !.calls = @ + 1]
    /\ UNCHANGED << runvars, seeding, tob >>

RlhfNext ==
    \/ Rollout
    \/ MoveIn
    \/ Score
    \/ MoveBack
    \/ Depad
    \/ PpoStep

RlhfSpec == RlhfInit /\ [][RlhfNext]_vars

(* ======================= properties of the claims ====================== *)
\* strict improvement of v over b for a metric mode, stated without the
\* program's comparator
Improves(mode, v, b) == IF mode = "max" THEN v > b ELSE v < b
\* the initial best of a mode: minus infinity for "max", plus infinity otherwise
StartBest(mode) == IF mode = "max" THEN 0 - (MaxMetric + 1) ELSE MaxMetric + 1
\* positions of a worker inside run_eval after the truncation
AfterTruncate == {"postprocess", "w_evalbar", "eval_ret"}
\* positions of a worker inside run_eval
InEval == {"run_eval", "w_gather", "truncate"} \cup AfterTruncate
\* positions of a worker after the epoch loop of run_train
AfterEpochs == {"final", "w_finalbar", "return", "returned"}

\* C1 (as stated): on the coordinating worker, after every in-training
\* evaluation with metric v, best_val_metric is v if v strictly improves on the
\* previous best and the previous best otherwise, whatever save_best_checkpoint.
C1_AsStated ==
    \A w \in Procs :
        (Coordinator(w) /\ obs[w].cmp.n > 0) =>
            best_val_metric[w] =
                IF Improves(cfg[w].metric_mode, obs[w].cmp.v, obs[w].cmp.prev)
                THEN obs[w].cmp.v ELSE obs[w].cmp.prev

\* C1 (amended): on the coordinating worker, after every in-training evaluation
\* with metric v, best_val_metric is v if v strictly improves on the previous
\* best and save_best_checkpoint is enabled, and the previous best otherwise;
\* before the first comparison it is -infinity for "max" and +infinity otherwise.
C1_BestUpdate ==
    \A w \in Procs :
        Coordinator(w) =>
            /\ (obs[w].cmp.n > 0 =>
                   best_val_metric[w] =
                       IF /\ Improves(cfg[w].metric_mode, obs[w].cmp.v, obs[w].cmp.prev)
                          /\ cfg[w].save_best_checkpoint
                       THEN obs[w].cmp.v ELSE obs[w].cmp.prev)
            /\ ((obs[w].cmp.n = 0 /\ objective_op[w] # "none") =>
                   best_val_metric[w] = StartBest(cfg[w].metric_mode))

\* a second comparison has replaced a finite best by a strictly better metric
C1_Witness ==
    \E w \in Procs :
        /\ Coordinator(w)
        /\ obs[w].cmp.n >= 2
        /\ obs[w].cmp.prev \in MetricValues
        /\ obs[w].cmp.saved
        /\ best_val_metric[w] = obs[w].cmp.v

\* the setting of scenario 1
Scenario1(w) ==
    /\ cfg[w].epochs = 1
    /\ cfg[w].evaluation_epochs = One
    /\ cfg[w].evaluate_before_training
    /\ cfg[w].save_best_checkpoint

\* C2 (as stated): in scenario 1 the single in-training evaluation saves a
\* checkpoint only if its metric strictly improves on the metric of the
\* pre-training evaluation.
C2_AsStated ==
    \A w \in Procs :
        (Coordinator(w) /\ Scenario1(w) /\ obs[w].cmp.n = 1 /\ obs[w].cmp.saved) =>
            Improves(cfg[w].metric_mode, obs[w].cmp.v, obs[w].base_eval[2])

\* C2 (amended): in scenario 1 the single in-training evaluation is compared
\* with the initial best (-infinity / +infinity), never with the metric of the
\* pre-training evaluation: its checkpoint is saved exactly if its metric
\* strictly improves on that initial value.
C2_SavedAgainstInitialBest ==
    \A w \in Procs :
        (Coordinator(w) /\ Scenario1(w) /\ obs[w].cmp.n = 1) =>
            /\ obs[w].cmp.prev = StartBest(cfg[w].metric_mode)
            /\ obs[w].cmp.saved =
                   Improves(cfg[w].metric_mode, obs[w].cmp.v,
                            StartBest(cfg[w].metric_mode))
            /\ obs[w].ckpts = (IF obs[w].cmp.saved THEN 1 ELSE 0)

\* scenario 1 saved a checkpoint for a metric that does not improve on the
\* pre-training metric
C2_Witness ==
    \E w \in Procs :
        /\ Coordinator(w) /\ Scenario1(w)
        /\ obs[w].cmp.n = 1 /\ obs[w].cmp.saved
        /\ obs[w].base_eval # NoPair
        /\ ~Improves(cfg[w].metric_mode, obs[w].cmp.v, obs[w].base_eval[2])

\* C3 (as stated): in supervised mode a non-finite loss at run-wide iteration
\* index >= 20 (counted over all epochs) raises LLMTrainingException, and a
\* non-finite loss at an earlier iteration of the run does not.
C3_AsStated ==
    \A w \in Procs :
        (~cfg[w].use_rlhf /\ obs[w].nbatch > 0 /\ ~(loss[w] = "finite")) =>
            ((obs[w].nbatch - 1 >= NanWarmup) <=> (err[w] = "LLMTrainingException"))

\* C4: with epochs = 0 no batch is dispatched to a step executor, and a worker
\* that has left the epoch loop has executed exactly one run_eval pass.
C4_ZeroEpochs ==
    \A w \in Procs :
        cfg[w].epochs = 0 =>
            /\ obs[w].nbatch = 0
            /\ obs[w].evals <= 1
            /\ (pc[w] \in AfterEpochs =>
                   obs[w].evals = 1 /\ obs[w].evals_done = 1)

\* a run of two workers with epochs = 0 has returned on every worker
C4_Witness ==
    /\ Cardinality(Procs) = 2
    /\ \A w \in Procs :
           cfg[w].epochs = 0 /\ pc[w] = "returned" /\ obs[w].evals_done = 1

\* C5: _curr_step is 0 before the first batch and batch_size * num_processes
\* times the number of batches afterwards; the step executor and every log
\* entry of the k-th batch see k * batch_size * num_processes; the counter grew
\* with the last batch; workers with the same number of batches agree.
C5_CurrStep ==
    /\ \A w \in Procs :
           LET k == obs[w].nbatch
               unit == cfg[w].batch_size * cfg[w].num_processes
           IN /\ curr_step[w] = k * unit
              /\ (k > 0 =>
                     /\ obs[w].exec_step = k * unit
                     /\ \A st \in obs[w].batch_log : st = k * unit
                     /\ curr_step[w] > obs[w].prev_step)
    /\ \A w1, w2 \in Procs :
           obs[w1].nbatch = obs[w2].nbatch => curr_step[w1] = curr_step[w2]

\* two workers have both run their second batch and the coordinator logged it
C5_Witness ==
    /\ Cardinality(Procs) = 2
    /\ \A w \in Procs : obs[w].nbatch = 2
    /\ obs[0].batch_log # {}

\* C6 (as stated): for a fraction in (0, 1] the evaluation is triggered after
\* the i-th batch of an epoch iff i is a positive multiple of
\* round(steps_per_epoch * fraction), and the computation never fails.
C6_AsStated ==
    \A w \in Procs :
        cfg[w].evaluation_epochs <= One =>
            LET r == PyRound(cfg[w].epoch_steps * cfg[w].evaluation_epochs, FracDen)
            IN /\ err[w] # "ZeroDivisionError"
               /\ (obs[w].trig.i > 0 =>
                      (obs[w].trig.fired <=> (r > 0 /\ obs[w].trig.i % r = 0)))

\* C6 (amended): for a fraction in (0, 1], with
\* n = int(steps_per_epoch * fraction) (truncated, not rounded): if n >= 1 the
\* evaluation is triggered after the i-th batch iff i is a positive multiple
\* of n; if n = 0 the computation of the trigger raises ZeroDivisionError after
\* the first batch, and it raises in no other case.
C6_TruncatedInterval ==
    \A w \in Procs :
        cfg[w].evaluation_epochs <= One =>
            LET n == (cfg[w].epoch_steps * cfg[w].evaluation_epochs) \div FracDen
            IN /\ (obs[w].trig.i > 0 =>
                      (n >= 1 /\ (obs[w].trig.fired <=> obs[w].trig.i % n = 0)))
               /\ ((n = 0 /\ obs[w].nbatch > 0 /\ err[w] # "LLMTrainingException")
                      => err[w] = "ZeroDivisionError")
               /\ (err[w] = "ZeroDivisionError" => (n = 0 /\ obs[w].nbatch = 1))

\* an evaluation was triggered at the truncated interval where rounding
\* would give another interval
C6_Witness ==
    \E w \in Procs :
        LET p == cfg[w].epoch_steps * cfg[w].evaluation_epochs
        IN /\ cfg[w].evaluation_epochs < One
           /\ p \div FracDen # PyRound(p, FracDen)
           /\ obs[w].trig.fired
           /\ obs[w].trig.i = p \div FracDen

\* C7: with evaluation fraction 1.0 an in-training evaluation runs only after
\* the last batch of an epoch, an epoch that has ended has run exactly one, and
\* a worker that has left the epoch loop has run as many as there are epochs.
C7_OnePerEpoch ==
    \A w \in Procs :
        (cfg[w].evaluation_epochs = One /\ pc[w] # "run") =>
            /\ (obs[w].trig.i > 0 =>
                   (obs[w].trig.fired <=> obs[w].trig.i = cfg[w].epoch_steps))
            /\ ((caller[w] = "train" /\ pc[w] \in (InEval \ {"run_eval"}) \cup {"compare"}) =>
                   (obs[w].eval_at = cfg[w].epoch_steps /\ obs[w].epoch_evals = 1))
            /\ (pc[w] \in {"epoch_end", "w_epochbar", "epoch_log"} =>
                   obs[w].epoch_evals = 1)
            /\ (pc[w] \in AfterEpochs => obs[w].train_evals = cfg[w].epochs)

\* a run of two epochs of two batches has left the epoch loop after two
\* evaluations
C7_Witness ==
    \E w \in Procs :
        /\ cfg[w].evaluation_epochs = One
        /\ cfg[w].epochs = 2 /\ cfg[w].epoch_steps = 2
        /\ pc[w] \in AfterEpochs
        /\ obs[w].train_evals = 2

\* C8 (as stated): a call of run_train that reaches its return statement
\* returns the pair of the last run_eval executed on that worker (stated for
\* the distributed runs, where the final barrier is passed by all workers).
C8_AsStated ==
    \A w \in Procs :
        (cfg[w].distributed /\ (pc[w] = "returned" \/ err[w] = "UnboundLocalError")) =>
            /\ pc[w] = "returned"
            /\ obs[w].evals_done > 0
            /\ ret[w] = obs[w].last_eval

\* C9: after the gather and the truncation of run_eval every entry of the
\* output has exactly val_size leading entries, on every worker.
C9_TruncatedLength ==
    \A w \in Procs :
        pc[w] \in AfterTruncate => val_len[w] = cfg[w].val_size

\* two workers whose padded shards exceed the validation set hold val_size entries
C9_Witness ==
    /\ Cardinality(Procs) = 2
    /\ \A w \in Procs :
           /\ pc[w] \in AfterTruncate
           /\ val_len[w] = cfg[w].val_size
           /\ 2 * ((cfg[w].val_size + 1) \div 2) > cfg[w].val_size

\* C10: a worker that has passed the end-of-evaluation barrier, or returned
\* from run_eval, finds the coordinator's post-processing, metric computation,
\* logging and prediction saving of that evaluation complete.
C10_EvalBarrier ==
    \A w \in Procs :
        /\ (pc[w] = "eval_ret" => obs[0].io_done >= obs[w].evals)
        /\ obs[0].io_done >= obs[w].evals_done

\* a non-coordinating worker has returned from its second run_eval
C10_Witness ==
    \E w \in Procs :
        /\ ~Coordinator(w)
        /\ obs[w].evals_done = 2
        /\ obs[0].io_done = 2

\* every process of the run has ended
AllTerminated == \A v \in Procs : pc[v] \in Terminated

\* C11: in every run in which an exception is possible (RaisedOnlyIfCanRaise:
\* no other run raises) a worker that raises an exception inside run leads to a state where an
\* exception has been logged, every worker process of the run is terminated
\* (none is left blocked in a gather or a barrier), and, if it was the only
\* worker that raised, its own exception is the one logged.
C11_Teardown ==
    \A w \in 0..(MaxWorkers - 1) :
        (w \in Procs /\ pc[w] = "raised") ~>
            /\ AllTerminated
            /\ \E v \in Procs : obs[v].logged
            /\ ((\A v \in Procs \ {w} : err[v] = "none") => obs[w].logged)

\* a worker raised the divergence error from its local loss while a peer was
\* blocked in a collective call; the error is logged and every process killed
C11_Witness ==
    \E w \in Procs :
        /\ err[w] = "LLMTrainingException"
        /\ obs[w].logged
        /\ obs[w].peer_waiting
        /\ \A v \in Procs : pc[v] = "killed"

\* C17: on a worker other than the coordinator (index 0) the comparator is never
\* evaluated, save_checkpoint is never called (neither in run_train nor at the
\* end of run), and best_val_metric keeps the value of its initialisation; the
\* comparator is the only place where the program branches on best_val_metric.
C17_CoordinatorOnly ==
    \A w \in Procs :
        w # 0 =>
            /\ obs[w].cmp.n = 0
            /\ obs[w].ckpts = 0
            /\ obs[w].end_ckpts = 0
            /\ (objective_op[w] # "none" =>
                   best_val_metric[w] = StartBest(cfg[w].metric_mode))

\* a second worker has finished run after an in-training evaluation for which
\* the coordinator saved a checkpoint and replaced its best metric
C17_Witness ==
    \E w \in Procs :
        /\ w # 0
        /\ pc[w] = "done"
        /\ obs[w].train_evals >= 1
        /\ obs[0].cmp.saved /\ obs[0].ckpts >= 1
        /\ best_val_metric[0] # best_val_metric[w]

\* positions of a worker after the statement of the final barrier
AfterFinal == {"w_finalbar", "return", "returned", "done"}

\* C18 (as stated): torch.distributed.barrier() is called after the last epoch
\* iff the distributed type is not NO; a non-distributed run never calls it.
C18_AsStated ==
    \A w \in Procs :
        /\ (obs[w].final_barrier > 0 => DistributedType(cfg[w]) # "NO")
        /\ ((pc[w] \in AfterFinal /\ DistributedType(cfg[w]) # "NO") =>
               obs[w].final_barrier = 1)

\* the seeds set so far in the run of the epoch loops
SeedsSet == IF seeding.pc = "epochs" THEN seeding.set ELSE {}

\* C19 (as stated): every seed set at the head of an epoch is
\* base_seed + epoch * num_processes * number_of_workers
\* + rank * number_of_workers, and for num_processes >= 1 and
\* number_of_workers >= 0 two distinct (epoch, rank) pairs of a run never
\* receive the same seed.
C19_AsStated ==
    /\ \A x \in SeedsSet :
           x.seed = seeding.base
                    + x.epoch * seeding.num_processes * seeding.number_of_workers
                    + x.rank * seeding.number_of_workers
    /\ \A x, y \in SeedsSet :
           (x.epoch # y.epoch \/ x.rank # y.rank) => x.seed # y.seed

\* with at least one loader worker the seeds of distinct (epoch, rank) pairs
\* differ, and a pair is given one seed only
C19_DistinctWithLoaders ==
    \A x, y \in SeedsSet :
        /\ ((x.epoch = y.epoch /\ x.rank = y.rank) => x.seed = y.seed)
        /\ ((seeding.number_of_workers >= 1
             /\ (x.epoch # y.epoch \/ x.rank # y.rank)) => x.seed # y.seed)

\* train_one_batch is being explored and its backward pass has run
Backwarded == tob.pc # "idle" /\ tob.bw.done

\* C16: for every accumulation window A >= 1, the loss stored in the output
\* of train_one_batch is the raw loss of the forward pass divided by A (the
\* raw loss itself for A = 1), and it is the loss given to the backward pass.
C16_StoredLoss ==
    Backwarded =>
        LET A == tob.grad_accumulation
        IN /\ tob.out_loss[1] * tob.raw[2] * A = tob.raw[1] * tob.out_loss[2]
           /\ (A = 1 => tob.out_loss = tob.raw)
           /\ tob.bw.loss = tob.out_loss

\* a call with a window of two micro-steps has stored half of the raw loss
C16_Witness ==
    /\ Backwarded
    /\ tob.grad_accumulation = 2
    /\ tob.raw = << 1, 1 >>
    /\ tob.out_loss = << 1, 2 >>
    /\ tob.calls >= 1

\* C20 (as stated): the backward pass and the optimizer step of a micro-step
\* run while the accumulation scope entered for it is active, and the
\* gradients are synchronised across workers only in the backward pass of the
\* last micro-step of an accumulation window.
C20_AsStated ==
    tob.pc # "idle" =>
        /\ (tob.bw.done => tob.bw.in_scope)
        /\ (tob.opt.done => tob.opt.in_scope)
        /\ ((tob.bw.done /\ tob.bw.synced) =>
               tob.step % tob.grad_accumulation = 0)

\* train_rlhf_one_batch is being explored
InRlhf == rlhf.pc # "idle"
\* a call of train_rlhf_one_batch has handed its lists to the policy trainer
HandedOver == InRlhf /\ rlhf.handed # NoHandOver
\* the examples of the batch
Examples == 1..Len(rlhf.input_ids)
\* the pad token of the model: its pad_token_id, and the end-of-sequence id
\* when it has none
PadToken == IF rlhf.pad_token_id = None THEN rlhf.eos_token_id ELSE rlhf.pad_token_id

\* C12: with offload_reward_model enabled the reward model is on the CPU or on
\* the accelerator; it is on the CPU at the start and at the return of every
\* call, on the accelerator exactly from the move before get_score to the move
\* after it, get_score never runs on the offloaded model, and the scores of all
\* examples are there when the model has been moved back.
C12_Placement ==
    (InRlhf /\ rlhf.offload_reward_model) =>
        /\ rlhf.placement \in {"cpu", "device"}
        /\ (rlhf.pc = "call" => rlhf.placement = "cpu")
        /\ (rlhf.placement = "device" <=> rlhf.pc \in {"score", "move_back"})
        /\ rlhf.score_on \in {"none", "device"}
        /\ (rlhf.pc \in {"depad", "ppo"} =>
               (rlhf.placement = "cpu" /\ rlhf.scores # << >>))

\* a second call has returned with the reward model offloaded again, after
\* get_score ran on the accelerator for two examples
C12_Witness ==
    /\ InRlhf /\ rlhf.offload_reward_model
    /\ rlhf.pc = "call" /\ rlhf.calls = 2
    /\ rlhf.placement = "cpu"
    /\ rlhf.score_on = "device"
    /\ Len(rlhf.scores) = 2

\* C13: the query of every example is the suffix of its input ids that starts
\* at the smallest position where the attention mask is 1, and all of the
\* input ids when the mask holds no 1.
C13_QuerySuffix ==
    HandedOver =>
        /\ Len(rlhf.handed.query) = Len(rlhf.input_ids)
        /\ \A k \in Examples :
               LET ids == rlhf.input_ids[k]
                   m == rlhf.attention_mask[k]
                   q == rlhf.handed.query[k]
               IN IF \E i \in 1..Len(m) : m[i] = 1
                  THEN \E i \in 1..Len(m) :
                          /\ m[i] = 1
                          /\ \A j \in 1..(i - 1) : m[j] # 1
                          /\ Len(q) = Len(ids) - i + 1
                          /\ \A j \in 1..Len(q) : q[j] = ids[i + j - 1]
                  ELSE q = ids

\* scenario 3: the masks [0,0,1,1] and [1,1,1,1] gave queries of length 2 and 4
C13_Witness ==
    /\ HandedOver
    /\ rlhf.attention_mask = << <<0, 0, 1, 1>>, <<1, 1, 1, 1>> >>
    /\ Len(rlhf.handed.query[1]) = 2
    /\ Len(rlhf.handed.query[2]) = 4

\* C14 (as stated): for every pad_token_id of the model, 0 included, the
\* response of every example is the prefix of the generated ids that ends just
\* before the first pad token, and all of them when there is no pad token; the
\* query, response and reward lists have one element per example.
C14_AsStated ==
    HandedOver =>
        /\ Len(rlhf.handed.query) = Len(rlhf.input_ids)
        /\ Len(rlhf.handed.response) = Len(rlhf.input_ids)
        /\ Len(rlhf.handed.reward) = Len(rlhf.input_ids)
        /\ \A k \in Examples :
               LET g == rlhf.predicted_answer_ids[k]
                   r == rlhf.handed.response[k]
               IN IF \E i \in 1..Len(g) : g[i] = PadToken
                  THEN \E i \in 1..Len(g) :
                          /\ g[i] = PadToken
                          /\ \A j \in 1..(i - 1) : g[j] # PadToken
                          /\ r = SubSeq(g, 1, i - 1)
                  ELSE r = g

\* C15 (as stated): a generated sequence without pad token is handed over
\* unchanged, a query whose attention mask is all ones is handed over
\* unchanged, and stripping a stripped sequence again changes nothing.
C15_AsStated ==
    HandedOver =>
        \A k \in Examples :
            LET g == rlhf.predicted_answer_ids[k]
                m == rlhf.attention_mask[k]
            IN /\ ((\A i \in 1..Len(g) : g[i] # PadToken) =>
                      rlhf.handed.response[k] = g)
               /\ ((\A i \in 1..Len(m) : m[i] = 1) =>
                      rlhf.handed.query[k] = rlhf.input_ids[k])
               /\ ResponseStrip(rlhf.handed.response[k],
                                PyOr(rlhf.pad_token_id, rlhf.eos_token_id))
                      = rlhf.handed.response[k]
               /\ QueryStrip(rlhf.handed.query[k], QueryStrip(m, m))
                      = rlhf.handed.query[k]

\* stripping a stripped sequence again changes nothing, for the token id the
\* program cuts at and for the attention mask cut like the input ids
C15_StripTwice ==
    HandedOver =>
        \A k \in Examples :
            /\ ResponseStrip(rlhf.handed.response[k],
                             PyOr(rlhf.pad_token_id, rlhf.eos_token_id))
                   = rlhf.handed.response[k]
            /\ QueryStrip(rlhf.handed.query[k],
                          QueryStrip(rlhf.attention_mask[k], rlhf.attention_mask[k]))
                   = rlhf.handed.query[k]

\* a worker raises only in the runs that FairSpec explores
RaisedOnlyIfCanRaise ==
    \A w \in Procs : err[w] # "none" => CanRaise(cfg[w])

\* C21 (as stated): no worker begins a training step before the coordinator
\* has completed the comparison (and the save) that follows the last
\* evaluation this worker took part in.
C21_AsStated ==
    \A w \in Procs : ~obs[w].began_before_cmp

\* C21 (amended): on the coordinator the comparison and the save lie between
\* its own training steps; a checkpoint is written only when no worker has
\* begun a later training step; another worker begins a step before the
\* coordinator's comparison is complete only in runs with
\* save_best_checkpoint disabled, where the comparison leads to no write.
C21_WriteBetweenSteps ==
    /\ \A w \in Procs :
           obs[w].began_before_cmp => (w # 0 /\ ~cfg[w].save_best_checkpoint)
    /\ \A w \in Procs :
           (w = 0 /\ obs[w].cmp.saved) => ~obs[w].cmp.overtaken

\* a second worker began its next batch before the coordinator made the
\* comparison of their common evaluation
C21_Witness ==
    \E w \in Procs :
        /\ w # 0
        /\ obs[w].began_before_cmp
        /\ obs[0].cmp.n >= 1 /\ obs[0].cmp.overtaken

IsPrefix(a, b) == Len(a) <= Len(b) /\ SubSeq(b, 1, Len(a)) = a
\* no worker of the run has raised
NobodyRaised == \A w \in Procs : err[w] = "none"
\* every worker has returned from run_train
AllReturned == \A w \in Procs : pc[w] \in {"returned", "done"}

\* as long as no worker has raised, the workers have issued the same
\* collective calls in the same order, one being at most ahead of the other,
\* and a worker is in a later epoch than another only by one, when that other
\* has passed the barrier that ends its epoch
Lockstep ==
    NobodyRaised =>
        \A w, v \in Procs :
            /\ (IsPrefix(obs[w].coll, obs[v].coll) \/ IsPrefix(obs[v].coll, obs[w].coll))
            /\ (epoch[w] > epoch[v] =>
                   (epoch[w] = epoch[v] + 1 /\ pc[v] = "epoch_log"))
            /\ (AllReturned => obs[w].coll = obs[v].coll)

\* C22: in a distributed run of workers with the same number of batches per
\* epoch, while no worker raises, all workers issue the same sequence of
\* collective calls, no worker starts epoch e+1 before every worker has ended
\* epoch e, and unless a worker raises every worker returns from run_train.
C22_Lockstep == [] Lockstep /\ <>(~NobodyRaised \/ AllReturned)

\* two workers have returned from a run of two epochs, each after a gather
\* and two barriers per epoch and the final barrier
C22_Witness ==
    /\ Cardinality(Procs) = 2
    /\ NobodyRaised /\ AllReturned
    /\ \A w \in Procs : cfg[w].epochs = 2 /\ Len(obs[w].coll) = 7
    /\ obs[0].coll = obs[1].coll

\* C23: on the coordinator, when the post-processed output has no "loss"
\* entry, run_eval does not fail: no validation loss is logged, the loss
\* returned is 0, the metric is still computed and returned, and the worker
\* goes on to the barrier that ends the evaluation.
C23_NoLossEntry ==
    \A w \in Procs :
        (w = 0 /\ obs[w].lossless) =>
            /\ obs[w].loss_logged = 0
            /\ obs[w].io_done = 1
            /\ IF obs[w].evals_done = 0
               THEN /\ err[w] = "none"
                    /\ pc[w] \in {"w_evalbar", "eval_ret"}
                    /\ ev[w][1] = 0 /\ ev[w][2] \in MetricValues
               ELSE /\ obs[w].last_eval[1] = 0
                    /\ obs[w].last_eval[2] \in MetricValues
                    /\ rt_val[w] = obs[w].last_eval

\* the coordinator of a two-worker run has returned loss 0 and a positive
\* metric from an evaluation whose output had no "loss" entry
C23_Witness ==
    /\ Cardinality(Procs) = 2
    /\ obs[0].lossless /\ obs[0].evals_done = 1
    /\ obs[0].last_eval[1] = 0 /\ obs[0].last_eval[2] > 0
    /\ obs[1].evals_done = 1

\* C24: checkpoint policy.  A checkpoint is written in the training loop only
\* by the coordinator, with save_best_checkpoint enabled and on a strict
\* improvement of the metric over the best so far.  In a run that has
\* completed without error: with save_best_checkpoint enabled the evaluation
\* interval is one epoch and no checkpoint is written after training; with it
\* disabled no checkpoint is written in run_train and exactly one is written
\* after training, by the coordinator only.
C24_CheckpointPolicy ==
    \A w \in Procs :
        /\ (obs[w].cmp.saved =>
               /\ w = 0 /\ cfg[w].save_best_checkpoint
               /\ Improves(cfg[w].metric_mode, obs[w].cmp.v, obs[w].cmp.prev))
        /\ (obs[w].ckpts > 0 => (w = 0 /\ cfg[w].save_best_checkpoint))
        /\ (obs[w].end_ckpts > 0 => pc[w] = "done")
        /\ (pc[w] = "done" =>
               IF cfg[w].save_best_checkpoint
               THEN /\ cfg[w].evaluation_epochs = One
                    /\ (cfg[w].epochs > 0 => evaluation_step[w] = cfg[w].epoch_steps)
                    /\ obs[w].end_ckpts = 0
                    /\ obs[w].ckpts <= obs[w].cmp.n
               ELSE /\ obs[w].ckpts = 0
                    /\ obs[w].end_ckpts = IF w = 0 THEN 1 ELSE 0)

\* a two-worker run of two epochs with save_best_checkpoint enabled has
\* completed; the coordinator wrote a checkpoint at the first evaluation and
\* none at the second, which did not improve the metric
C24_Witness ==
    /\ Cardinality(Procs) = 2
    /\ \A w \in Procs : pc[w] = "done" /\ cfg[w].save_best_checkpoint
    /\ obs[0].cmp.n = 2 /\ obs[0].ckpts = 1 /\ ~obs[0].cmp.saved
    /\ obs[0].end_ckpts = 0

\* the runtime string the elapsed seconds t stand for: the whole days of t
\* once t exceeds a day, and the hours, minutes and seconds of the rest
RuntimeOf(t) ==
    [ d |-> IF t > DaySeconds THEN << t \div DaySeconds >> ELSE << >>,
      H |-> (t % DaySeconds) \div 3600,
      M |-> (t % 3600) \div 60,
      S |-> t % 60 ]

\* C25 (as stated): a coordinator that has completed run has written status
\* "finished" and the runtime string of its elapsed seconds t: plain H:M:S for
\* t <= 86400, and for t > 86400 the day field floor(t / 86400) with the H:M:S
\* of t mod 86400; a worker that raised has written no "finished" status.
C25_AsStated ==
    \A w \in Procs :
        /\ ((w = 0 /\ pc[w] = "done") =>
               /\ obs[w].flags.status = "finished"
               /\ obs[w].flags.info = << RuntimeOf(obs[w].flags.time_took) >>)
        /\ (err[w] # "none" => obs[w].flags.status = "none")

\* what the program writes: the day field is the day of the year of the
\* elapsed time, one more than its whole days
C25_DayOfYear ==
    \A w \in Procs :
        /\ ((w = 0 /\ pc[w] = "done") =>
               LET t == obs[w].flags.time_took
                   r == obs[w].flags.info[1]
               IN /\ obs[w].flags.status = "finished"
                  /\ r.H = RuntimeOf(t).H /\ r.M = RuntimeOf(t).M /\ r.S = RuntimeOf(t).S
                  /\ r.d = IF t > DaySeconds THEN << t \div DaySeconds + 1 >> ELSE << >>)
        /\ (err[w] # "none" => obs[w].flags.status = "none")
        /\ (w # 0 => obs[w].flags = NoFlags)
====
